---- MODULE Spec2Model ----
(***************************************************************************)
(* Icon resolution and caching pipeline of protostar                       *)
(* (protostar/src/xdg.rs, protostar/src/application.rs).                   *)
(*                                                                         *)
(* Two threads call Application::icon concurrently.  The process-wide      *)
(* IMAGE_CACHE is a Mutex<ImageCache>; every `IMAGE_CACHE.lock()`          *)
(* expression of the source is one atomic action here, because the guard   *)
(* is a temporary that is dropped at the end of the statement that took    *)
(* it.  The file system, the icon theme index and the snapshot file are    *)
(* the environment.                                                        *)
(*                                                                         *)
(* Option<T> is a sequence of length 0 (None) or 1 (Some).                 *)
(* A string that may be used as a path is a record [dir, file]: dir is ""  *)
(* for a relative one-component string, file is the '.'-separated list of  *)
(* the components of the last path element.                                *)
(***************************************************************************)
EXTENDS Integers, Sequences, FiniteSets, TLC

\* ---- bounds of the model ------------------------------------------------
MaxCalls == 2
MaxRemovals == 1

\* two threads share IMAGE_CACHE
Threads == {1, 2}

\* ---- Option ---------------------------------------------------------------
NoneV == <<>>
Some(x) == <<x>>
IsSome(o) == Len(o) = 1
Unwrap(o) == o[1]

\* ---- strings and paths ----------------------------------------------------
Str(d, f) == [dir |-> d, file |-> f]

CacheDir == "/cache/protostar_icon_cache"
DesktopPath == "/apps/entry.desktop"

\* the snapshot file of this process and a file elsewhere
CacheFile == "imagecache.map"
OtherFile == "elsewhere.map"
SnapPaths == {CacheFile, OtherFile}

\* files of the icon theme and files named by absolute Icon= values
ThemePng == Str("/theme/a", <<"a", "png">>)
ThemeSvg == Str("/theme/b", <<"a", "svg">>)
ThemeXpm == Str("/theme/a", <<"a", "xpm">>)
OptGlb == Str("/opt", <<"a", "glb">>)
ThemePaths == {ThemePng, ThemeSvg, ThemeXpm}
Paths == ThemePaths \cup {OptGlb}

\* Icon= values of the desktop entries: none, a logical name, an absolute path
NameA == Str("", <<"a">>)
EntryIcons == {NoneV, Some(NameA), Some(OptGlb)}
\* the launcher asks for 128 pixels (hexagon_launcher/src/app.rs, application.icon(128, false))
PreferredPx == 128
\* the calls: <<Icon= value, preferred_px_size>>
Requests == {<<ic, PreferredPx>> : ic \in EntryIcons}

\* file contents: a well-formed document and a malformed one
NoFile == "absent"
Good == "good"
\* another well-formed document, as long as the first
Redrawn == "redrawn"
Malformed == "malformed"
ByteLen(c) == IF c \in {Good, Redrawn} THEN 1 ELSE 2
WellFormed(c) == c \in {Good, Redrawn}

\* the io::Error values of get_png_from_svg: canonicalize or read of a missing
\* file, map_err of the parse, map_err of save_png
NoError == "none"
ReadError == "NotFound"
ParseError == "InvalidData"
WriteError == "InvalidData"

\* the ladder walked upwards
IconSizesAscending == <<24, 32, 48, 64, 128, 256, 512>>

ICON_SIZES == <<512, 256, 128, 64, 48, 32, 24>>

VARIABLES
    fs,         \* [Paths -> content]: the icon files on disk
    artifacts,  \* set of [path, from, px, of, complete]: bitmap files in the cache directory
    disk,       \* [SnapPaths -> snapshot text]
    cache,      \* IMAGE_CACHE: [path, map]
    poisoned,   \* the mutex was poisoned by a panic under the guard
    pc,         \* where each thread is in Application::icon
    entry,      \* self.desktop_file.icon of the running call
    pref,       \* preferred_px_size of the running call
    cand,       \* the Option<Icon> get_icon returned
    src,        \* the step of get_icon that accepted it
    idx,        \* position of the loop over ICON_SIZES
    found,      \* what the last theme lookup returned
    queried,    \* the sizes get_icon has asked the theme for, in order
    stale,      \* the cache lookup met an entry whose file is gone
    ret,        \* what Application::icon returned
    err,        \* the io::Error get_png_from_svg returned, before .ok() drops it
    pixmap,     \* the Pixmap get_png_from_svg rendered in the running call
    svg_data,   \* the bytes of the source get_png_from_svg read and parsed
    calls, removals,
    parser,     \* parse_desktop_file: the lines of the file and the locals of the loop
    app         \* the fields of one App of the launcher and the tasks it spawned

\* the variables of the icon pipeline
icons == <<fs, artifacts, disk, cache, poisoned, pc, entry, pref, cand, src, idx,
           found, queried, stale, ret, err, pixmap, svg_data, calls, removals>>

vars == <<icons, parser, app>>

env == <<fs, artifacts, disk, cache, poisoned>>

\* Path::exists
Exists(p) ==
    \/ p \in DOMAIN fs /\ fs[p] # NoFile
    \/ \E a \in artifacts : a.path = p

\* PathBuf::join: an absolute argument replaces the base
Join(base, rel) == IF rel.dir # "" THEN rel ELSE Str(base, rel.file)

\* Path::extension
Extension(p) == IF Len(p.file) > 1 THEN Some(p.file[Len(p.file)]) ELSE NoneV

\* path.with_extension("").file_name() as a String
ImageName(p) ==
    Str("", IF Len(p.file) > 1 THEN SubSeq(p.file, 1, Len(p.file) - 1) ELSE p.file)

\* from_path without the arm of the 3D models
FromPathNoGltf(p, size) ==
    LET e == Extension(p) IN
    IF e = Some("png") THEN Some([icon_type |-> "Png", path |-> p, size |-> size])
    ELSE IF e = Some("svg") THEN Some([icon_type |-> "Svg", path |-> p, size |-> size])
    ELSE NoneV

\* Icon::from_path
FromPath(p, size) ==
    LET e == Extension(p) IN
    IF e = Some("png") THEN Some([icon_type |-> "Png", path |-> p, size |-> size])
    ELSE IF e = Some("svg") THEN Some([icon_type |-> "Svg", path |-> p, size |-> size])
    ELSE IF e = Some("glb") \/ e = Some("gltf")
         THEN Some([icon_type |-> "Gltf", path |-> p, size |-> size])
    ELSE NoneV

\* ---- the snapshot file ------------------------------------------------------
\* no file; a file read_to_string cannot read; text that is no snapshot
Missing == [kind |-> "missing"]
Unreadable == [kind |-> "unreadable"]
Garbage == [kind |-> "garbage"]

RECURSIVE SetToSeq(_)
SetToSeq(S) ==
    IF S = {} THEN <<>>
    ELSE LET x == CHOOSE y \in S : TRUE IN <<x>> \o SetToSeq(S \ {x})

\* serde_as Vec<(_, _)>: the map is written as the list of its pairs
MapToVec(m) == SetToSeq({<<k, m[k]>> : k \in DOMAIN m})

\* collecting a list of pairs into a HashMap: a later pair replaces an earlier one
VecToMap(v) ==
    [k \in {v[i][1] : i \in DOMAIN v} |->
        LET last == CHOOSE i \in DOMAIN v :
                        /\ v[i][1] = k
                        /\ \A j \in DOMAIN v : v[j][1] = k => j <= i
        IN v[last][2]]

\* toml::ser::to_string_pretty(self)
Serialize(c) == [kind |-> "toml", path |-> c.path, map |-> MapToVec(c.map)]

\* toml::de::from_str
Deserialize(text) ==
    IF text.kind = "toml"
    THEN Some([path |-> text.path, map |-> VecToMap(text.map)])
    ELSE NoneV

EmptyMap == [k \in {} |-> ThemePng]

\* ImageCache::new
ImageCacheNew(path, d) ==
    LET parsed == IF d[path].kind \notin {"missing", "unreadable"}
                  THEN Deserialize(d[path]) ELSE NoneV IN
    IF IsSome(parsed) THEN Unwrap(parsed) ELSE [path |-> path, map |-> EmptyMap]

\* ImageCache::insert (HashMap::insert replaces the value of a present key)
MapInsert(m, k, v) == [x \in DOMAIN m \cup {k} |-> IF x = k THEN v ELSE m[x]]

\* the map of a snapshot written by an earlier run
InitMaps == {MapInsert(EmptyMap, <<NameA, PreferredPx>>, ThemePng)}

\* what imagecache.map holds when the process starts: nothing, something that
\* cannot be read or parsed, an earlier run's snapshot, or a snapshot whose
\* recorded path names another file
InitSnapshots ==
    {Missing, Unreadable, Garbage}
        \cup {[kind |-> "toml", path |-> CacheFile, map |-> MapToVec(m)] : m \in InitMaps}
        \cup {[kind |-> "toml", path |-> OtherFile, map |-> MapToVec(EmptyMap)]}

\* ---- parse_desktop_file ---------------------------------------------------------
\* A line is the sequence of its characters; a word that the parser never looks
\* into stands for its characters.
MaxLines == 3

\* line.starts_with('#')
StartsWithHash(line) == Len(line) > 0 /\ line[1] = "#"

\* re.captures(&line) for ^\[([^\]]*)\]$ : the text between the brackets
Captures(line) ==
    IF /\ Len(line) >= 2
       /\ line[1] = "["
       /\ line[Len(line)] = "]"
       /\ \A i \in 2..(Len(line) - 1) : line[i] # "]"
    THEN Some(SubSeq(line, 2, Len(line) - 1))
    ELSE NoneV

\* str::contains
Contains(text, pat) ==
    \E i \in 1..(Len(text) - Len(pat) + 1) : SubSeq(text, i, i + Len(pat) - 1) = pat

\* entry.as_str().contains("Desktop Entry")
IsDesktopEntry(group) == Contains(group, <<"Desktop", "Entry">>)

\* line.split_once('=')
SplitOnce(line, sep) ==
    IF \E i \in 1..Len(line) : line[i] = sep
    THEN LET i == CHOOSE j \in 1..Len(line) :
                    line[j] = sep /\ \A k \in 1..(j - 1) : line[k] # sep
         IN Some(<<SubSeq(line, 1, i - 1), SubSeq(line, i + 1, Len(line))>>)
    ELSE NoneV

\* value.split(';'): the pieces between the separators, empty ones included
RECURSIVE Split(_, _)
Split(text, sep) ==
    LET cut == SplitOnce(text, sep) IN
    IF IsSome(cut) THEN <<Unwrap(cut)[1]>> \o Split(Unwrap(cut)[2], sep) ELSE <<text>>

\* .filter(|s| !s.is_empty()).collect()
RECURSIVE NonEmpty(_)
NonEmpty(pieces) ==
    IF pieces = <<>> THEN <<>>
    ELSE IF Head(pieces) = <<>> THEN NonEmpty(Tail(pieces))
    ELSE <<Head(pieces)>> \o NonEmpty(Tail(pieces))

\* parse_desktop_file called on a file made of `lines`: the file is not open yet,
\* the locals hold their first values
ParserNew(lines) ==
    [lines |-> lines, pos |-> 1, result |-> "opening",
     name |-> NoneV, command |-> NoneV, categories |-> <<>>, icon |-> NoneV,
     no_display |-> FALSE, desktop_entry_found |-> FALSE]

\* the match on the key, lines 154-167
ParseKeyValue(p, key, value) ==
    IF key = <<"Name">> THEN [p EXCEPT !.name = Some(value)]
    ELSE IF key = <<"Exec">> THEN [p EXCEPT !.command = Some(value)]
    ELSE IF key = <<"Categories">>
         THEN [p EXCEPT !.categories = NonEmpty(Split(value, ";"))]
    ELSE IF key = <<"Icon">> THEN [p EXCEPT !.icon = Some(value)]
    ELSE IF key = <<"NoDisplay">> THEN [p EXCEPT !.no_display = (value = <<"true">>)]
    ELSE p

\* one turn of the loop over the lines, lines 127-168
ParseStep(p, line) ==
    IF line = <<>> \/ StartsWithHash(line) THEN p
    ELSE LET q == IF IsSome(Captures(line))
                  THEN [p EXCEPT !.desktop_entry_found = IsDesktopEntry(Unwrap(Captures(line)))]
                  ELSE p
             parts == SplitOnce(line, "=")
         IN IF ~q.desktop_entry_found THEN q
            ELSE IF parts = NoneV THEN q
            ELSE ParseKeyValue(q, Unwrap(parts)[1], Unwrap(parts)[2])

\* ---- one App of the launcher ---------------------------------------------------
\* the frames a 0.25 s animation takes when every frame advances it by one step
TweenTicks == 2

\* the launch tasks one run starts at most
MaxTasks == 2

\* Tweener::quart_in_out(from, to, 0.25): the time run so far and the final value
Tweener(final) == [elapsed |-> 0, final |-> final]

\* Tweener::is_finished
IsFinished(tw) == tw.elapsed >= TweenTicks

\* Tweener::move_by(delta): the time advances, never past the duration
MoveBy(tw, delta) ==
    [tw EXCEPT !.elapsed = IF @ + delta > TweenTicks THEN TweenTicks ELSE @ + delta]

\* App::create_from_desktop_file: no animation runs, the content sits at the App's
\* position, no task was spawned.  `far` says that the squared distance of the
\* content from the parent exceeds ACTIVATION_DISTANCE, `position_far` says the
\* same of the App's own position.
AppNew(unfurled, position_far) ==
    [grabbable_shrink |-> NoneV, grabbable_grow |-> NoneV, grabbable_move |-> NoneV,
     grabbable_enabled |-> TRUE, icon_enabled |-> TRUE, unfurled |-> unfurled,
     actor_stopped |-> FALSE, position_far |-> position_far, far |-> position_far,
     tasks |-> <<>>]

\* the task of tokio::task::spawn in App::frame, about to ask for the transform.
\* at_release keeps the distance of the frame that spawned it; the task does not
\* hold it.
LaunchTask(at_release) == [stage |-> "measure", at_release |-> at_release]

\* grabbable.update(info) and the `state` argument: the grab action reports a
\* release or not, the content is where the hand or its velocity took it
FrameUpdate(a, stopped, d, u) ==
    [a EXCEPT !.actor_stopped = stopped, !.far = d, !.unfurled = u]

\* `if let Some(grabbable_move)`, lines 195-214; scaled_far says whether
\* position * scale still lies beyond ACTIVATION_DISTANCE
FrameMove(a, delta, scaled_far) ==
    IF a.grabbable_move = NoneV THEN a
    ELSE LET mv == Unwrap(a.grabbable_move) IN
         IF ~IsFinished(mv)
         THEN [a EXCEPT !.grabbable_move = Some(MoveBy(mv, delta)), !.far = scaled_far]
         ELSE [a EXCEPT !.grabbable_move = NoneV,
                        !.icon_enabled = IF mv.final = "0.0001" THEN FALSE ELSE @]

\* self.grabbable.grab_action().actor_stopped(): the hand let go in this frame
CanStart(a) == a.actor_stopped

\* `if let Some(grabbable_shrink) .. else if let Some(grabbable_grow) .. else if
\* actor_stopped()`, lines 215-297
FrameChain(a, delta) ==
    IF a.grabbable_shrink # NoneV
    THEN LET sh == Unwrap(a.grabbable_shrink) IN
         IF ~IsFinished(sh)
         THEN [a EXCEPT !.grabbable_shrink = Some(MoveBy(sh, delta))]
         ELSE [a EXCEPT !.grabbable_grow = IF a.unfurled THEN Some(Tweener("1.0")) ELSE @,
                        !.grabbable_shrink = NoneV,
                        !.far = a.position_far]
    ELSE IF a.grabbable_grow # NoneV
    THEN LET gr == Unwrap(a.grabbable_grow) IN
         IF ~IsFinished(gr)
         THEN [a EXCEPT !.grabbable_grow = Some(MoveBy(gr, delta))]
         ELSE [a EXCEPT !.grabbable_grow = NoneV]
    ELSE IF CanStart(a)
    THEN [a EXCEPT !.grabbable_shrink = Some(Tweener("0.0001")),
                   !.tasks = Append(@, LaunchTask(a.far))]
    ELSE a

InitIcons ==
    /\ fs \in [Paths -> {Good, Malformed}]
    /\ \A p \in Paths : p # ThemeSvg => fs[p] = Good
    /\ artifacts = {}
    /\ \E s \in InitSnapshots : disk = [p \in SnapPaths |-> IF p = CacheFile THEN s ELSE Missing]
    /\ cache = ImageCacheNew(CacheFile, disk)
    /\ poisoned = FALSE
    /\ pc = [t \in Threads |-> "idle"]
    /\ entry = [t \in Threads |-> NoneV]
    /\ pref = [t \in Threads |-> PreferredPx]
    /\ cand = [t \in Threads |-> NoneV]
    /\ src = [t \in Threads |-> "none"]
    /\ idx = [t \in Threads |-> 1]
    /\ found = [t \in Threads |-> NoneV]
    /\ queried = [t \in Threads |-> <<>>]
    /\ stale = [t \in Threads |-> FALSE]
    /\ ret = [t \in Threads |-> NoneV]
    /\ err = [t \in Threads |-> NoError]
    /\ pixmap = [t \in Threads |-> NoneV]
    /\ svg_data = [t \in Threads |-> NoneV]
    /\ calls = 0
    /\ removals = 0

\* the icon pipeline at start; no desktop file is being parsed, the App is at rest
Init ==
    /\ InitIcons
    /\ parser = ParserNew(<<>>)
    /\ app = AppNew(FALSE, FALSE)

\* ---- the icon theme index (freedesktop_icons_greedy::lookup ... find) ---------
\* A query answers with an existing theme file named after the icon, or nothing;
\* which size directories hold the icon is not modelled, so a query may miss.
LookupResults(name) ==
    {NoneV} \cup {Some(p) : p \in {q \in ThemePaths : Exists(q) /\ ImageName(q) = name}}

\* Application::icon, lines 36-42: the choice among the raw icons
SelectIcon(raw, prefer_3d) ==
    LET icon == raw  \* max_by_key over the at most one element of the Option
        gltf == IF IsSome(raw) /\ Unwrap(raw).icon_type = "Gltf" THEN raw ELSE NoneV
    IN IF prefer_3d THEN (IF IsSome(gltf) THEN gltf ELSE icon) ELSE icon

\* the key get_icon looks up: (icon_name.clone(), preferred_px_size)
LookupKey(icon_name, size) == <<icon_name, size>>

\* get_icon without its cache step
CacheHitNever(k) == FALSE

\* the lookup of get_icon answers with a path that exists
CacheHit(k) == k \in DOMAIN cache.map /\ Exists(cache.map[k])

\* cached_process keyed by the file name with its extension
ProcessKeyFileName(icon, size) == <<Str("", icon.path.file), size>>

\* the key cached_process uses: (image_name, size)
ProcessKey(icon, size) == <<ImageName(icon.path), size>>

\* map.contains_key
ContainsKey(k) == k \in DOMAIN cache.map

\* the name of the bitmap get_png_from_svg writes
PngPath(svg_path, len, size) == Str(CacheDir, svg_path.file \o <<len, size, "png">>)

\* ---- a call of Application::icon ------------------------------------------------
Call(t) ==
    /\ pc[t] \in {"idle", "done"}
    /\ calls < MaxCalls
    \* threads are numbered in the order of their first call
    /\ \A u \in Threads : u < t => pc[u] # "idle"
    /\ \E r \in Requests :
        /\ entry' = [entry EXCEPT ![t] = r[1]]
        /\ pref' = [pref EXCEPT ![t] = r[2]]
    /\ pc' = [pc EXCEPT ![t] = "get_icon"]
    /\ cand' = [cand EXCEPT ![t] = NoneV]
    /\ src' = [src EXCEPT ![t] = "none"]
    /\ idx' = [idx EXCEPT ![t] = 1]
    /\ found' = [found EXCEPT ![t] = NoneV]
    /\ queried' = [queried EXCEPT ![t] = <<>>]
    /\ stale' = [stale EXCEPT ![t] = FALSE]
    /\ ret' = [ret EXCEPT ![t] = NoneV]
    /\ err' = [err EXCEPT ![t] = NoError]
    /\ pixmap' = [pixmap EXCEPT ![t] = NoneV]
    /\ svg_data' = [svg_data EXCEPT ![t] = NoneV]
    /\ calls' = calls + 1
    /\ UNCHANGED <<env, removals,
                   parser, app>>

\* get_icon returns Some(icon) to Application::icon
Accept(t, icon, step) ==
    /\ cand' = [cand EXCEPT ![t] = icon]
    /\ src' = [src EXCEPT ![t] = step]
    /\ pc' = [pc EXCEPT ![t] = "picked"]

\* Application::icon returns r
Return(t, r) ==
    /\ ret' = [ret EXCEPT ![t] = r]
    /\ pc' = [pc EXCEPT ![t] = "done"]
    /\ UNCHANGED err

\* get_png_from_svg returns Err(e); `.ok()` makes it None and Application::icon
\* returns that
Fail(t, e) ==
    /\ ret' = [ret EXCEPT ![t] = NoneV]
    /\ pc' = [pc EXCEPT ![t] = "done"]
    /\ err' = [err EXCEPT ![t] = e]

\* lock().unwrap() on the poisoned mutex: the thread unwinds, its locals are gone
Panic(t) ==
    /\ pc' = [pc EXCEPT ![t] = "panicked"]
    /\ cand' = [cand EXCEPT ![t] = NoneV]
    /\ src' = [src EXCEPT ![t] = "none"]
    /\ idx' = [idx EXCEPT ![t] = 1]
    /\ found' = [found EXCEPT ![t] = NoneV]
    /\ queried' = [queried EXCEPT ![t] = <<>>]
    /\ stale' = [stale EXCEPT ![t] = FALSE]
    /\ UNCHANGED <<ret, err>>

\* an entry without Icon= that is looked up in the theme all the same
NoIconNameGoesOn(t) ==
    /\ pc' = [pc EXCEPT ![t] = "theme"]
    /\ UNCHANGED <<env, cand, src, queried, ret, err>>

\* get_icon, line 217: `self.icon.as_ref()?` on an entry without Icon=
NoIconName(t) ==
    /\ Return(t, NoneV)
    /\ UNCHANGED <<env, cand, src, queried>>

\* get_icon, lines 217-223: no icon name, or the exact path
GetIconExact(t) ==
    /\ pc[t] = "get_icon"
    /\ IF entry[t] = NoneV
       THEN NoIconName(t)
       ELSE LET test_icon_path == Join(DesktopPath, Unwrap(entry[t]))
                icon == FromPath(test_icon_path, pref[t])
            IN /\ IF Exists(test_icon_path) /\ IsSome(icon)
                  THEN Accept(t, icon, "exact") /\ UNCHANGED <<ret, err>>
                  ELSE /\ pc' = [pc EXCEPT ![t] = "cache"]
                       /\ UNCHANGED <<cand, src, ret, err>>
               /\ UNCHANGED <<env, queried>>
    /\ UNCHANGED <<entry, pref, idx, found, stale, pixmap, svg_data, calls, removals,
                   parser, app>>

\* get_icon, lines 225-236: the cache lookup, under the guard
GetIconCache(t) ==
    /\ pc[t] = "cache"
    /\ IF poisoned
       THEN Panic(t)
       ELSE LET k == LookupKey(Unwrap(entry[t]), pref[t])
                icon == IF CacheHit(k) THEN FromPath(cache.map[k], pref[t]) ELSE NoneV
            IN /\ IF IsSome(icon)
                  THEN Accept(t, icon, "cache")
                  ELSE pc' = [pc EXCEPT ![t] = "theme"] /\ UNCHANGED <<cand, src>>
               /\ stale' = [stale EXCEPT ![t] = ContainsKey(k) /\ ~Exists(cache.map[k])]
               /\ UNCHANGED <<idx, found, queried, ret, err>>
    /\ UNCHANGED <<env, entry, pref, pixmap, svg_data, calls, removals,
                   parser, app>>

\* get_icon, lines 243-252: the theme at the preferred size
GetIconTheme(t) ==
    /\ pc[t] = "theme"
    /\ queried' = [queried EXCEPT ![t] = Append(@, pref[t])]
    /\ \E r \in LookupResults(Unwrap(entry[t])) :
        LET icon == IF IsSome(r) THEN FromPath(Unwrap(r), pref[t]) ELSE NoneV IN
        /\ found' = [found EXCEPT ![t] = r]
        /\ IF IsSome(icon)
           THEN Accept(t, icon, "theme")
           ELSE pc' = [pc EXCEPT ![t] = "ladder"] /\ UNCHANGED <<cand, src>>
    /\ UNCHANGED <<env, entry, pref, idx, stale, ret, err, pixmap, svg_data, calls, removals,
                   parser, app>>

\* get_icon, lines 254-266: one turn of the loop over ICON_SIZES
GetIconLadder(t) ==
    /\ pc[t] = "ladder"
    /\ queried' = [queried EXCEPT ![t] = Append(@, ICON_SIZES[idx[t]])]
    /\ \E r \in LookupResults(Unwrap(entry[t])) :
        LET icon == IF IsSome(r) THEN FromPath(Unwrap(r), pref[t]) ELSE NoneV IN
        /\ found' = [found EXCEPT ![t] = r]
        /\ IF IsSome(icon)
           THEN Accept(t, icon, "ladder") /\ UNCHANGED <<idx, ret, err>>
           ELSE IF idx[t] < Len(ICON_SIZES)
                THEN /\ idx' = [idx EXCEPT ![t] = @ + 1]
                     /\ UNCHANGED <<pc, cand, src, ret, err>>
                ELSE Return(t, NoneV) /\ UNCHANGED <<idx, cand, src>>
    /\ UNCHANGED <<env, entry, pref, stale, pixmap, svg_data, calls, removals,
                   parser, app>>

\* Application::icon lines 36-44 and cached_process lines 299-313:
\* the icon is chosen and the key is looked for, under the guard
CachedProcessContains(t) ==
    /\ pc[t] = "picked"
    /\ IF poisoned
       THEN Panic(t)
       ELSE \E prefer_3d \in BOOLEAN :
            LET icon == SelectIcon(cand[t], prefer_3d) IN
            /\ cand' = [cand EXCEPT ![t] = icon]
            /\ pc' = [pc EXCEPT ![t] =
                        IF ContainsKey(ProcessKey(Unwrap(icon), pref[t]))
                        THEN "process" ELSE "insert"]
            \* get_icon has returned: its loop index and its lookups are gone
            /\ idx' = [idx EXCEPT ![t] = 1]
            /\ found' = [found EXCEPT ![t] = NoneV]
            /\ queried' = [queried EXCEPT ![t] = <<>>]
            /\ UNCHANGED <<src, stale, ret, err>>
    /\ UNCHANGED <<env, entry, pref, pixmap, svg_data, calls, removals,
                   parser, app>>

\* cached_process, lines 314-317: the insert, under a guard of its own
CachedProcessInsert(t) ==
    /\ pc[t] = "insert"
    /\ IF poisoned
       THEN Panic(t) /\ UNCHANGED cache
       ELSE /\ cache' = [cache EXCEPT !.map =
                            MapInsert(@, ProcessKey(Unwrap(cand[t]), pref[t]),
                                      Unwrap(cand[t]).path)]
            /\ pc' = [pc EXCEPT ![t] = "save"]
            /\ UNCHANGED <<cand, src, idx, found, queried, stale, ret, err>>
    /\ UNCHANGED <<fs, artifacts, disk, poisoned, entry, pref, pixmap, svg_data, calls, removals,
                   parser, app>>

\* ImageCache::save: the snapshot at self.path is rewritten whole
SaveTo(c, d) == [d EXCEPT ![c.path] = Serialize(c)]

\* cached_process, line 318, and ImageCache::save, under a third guard;
\* a failed write panics under the guard and poisons the mutex
CachedProcessSave(t) ==
    /\ pc[t] = "save"
    /\ IF poisoned
       THEN Panic(t) /\ UNCHANGED <<disk, poisoned>>
       ELSE \/ /\ disk' = SaveTo(cache, disk)
               /\ pc' = [pc EXCEPT ![t] = "process"]
               /\ UNCHANGED <<poisoned, cand, src, idx, found, queried, stale, ret, err>>
            \/ /\ poisoned' = TRUE
               /\ Panic(t)
               /\ UNCHANGED disk
    /\ UNCHANGED <<fs, artifacts, cache, entry, pref, pixmap, svg_data, calls, removals,
                   parser, app>>

\* get_png_from_svg without the test of png_path.exists()
CachedProcessMatchAlwaysRenders(t) ==
    /\ pc[t] = "process"
    /\ LET icon == Unwrap(cand[t]) IN
       IF icon.icon_type # "Svg"
       THEN Return(t, Some(icon)) /\ UNCHANGED svg_data
       ELSE IF ~Exists(icon.path)
            THEN Fail(t, ReadError) /\ UNCHANGED svg_data
            ELSE /\ svg_data' = [svg_data EXCEPT ![t] = Some(fs[icon.path])]
                 /\ IF ~WellFormed(fs[icon.path])
                    THEN Fail(t, ParseError)
                    ELSE pc' = [pc EXCEPT ![t] = "render"] /\ UNCHANGED <<ret, err>>
    /\ UNCHANGED <<env, entry, pref, cand, src, idx, found, queried, stale,
                   pixmap, calls, removals,
                   parser, app>>

\* cached_process, lines 320-323, and get_png_from_svg up to line 374: the source
\* is read and parsed before the bitmap is looked for
CachedProcessMatch(t) ==
    /\ pc[t] = "process"
    /\ LET icon == Unwrap(cand[t]) IN
       IF icon.icon_type # "Svg"
       THEN Return(t, Some(icon)) /\ UNCHANGED svg_data
       ELSE IF ~Exists(icon.path)
            THEN Fail(t, ReadError) /\ UNCHANGED svg_data
            ELSE /\ svg_data' = [svg_data EXCEPT ![t] = Some(fs[icon.path])]
                 /\ IF ~WellFormed(fs[icon.path])
                    THEN Fail(t, ParseError)
                    ELSE LET png_path ==
                                PngPath(icon.path, ByteLen(fs[icon.path]), pref[t])
                         IN IF Exists(png_path)
                            THEN Return(t, FromPath(png_path, pref[t]))
                            ELSE /\ pc' = [pc EXCEPT ![t] = "render"]
                                 /\ UNCHANGED <<ret, err>>
    /\ UNCHANGED <<env, entry, pref, cand, src, idx, found, queried, stale,
                   pixmap, calls, removals,
                   parser, app>>

\* get_png_from_svg, lines 376-384: the tree that was parsed is rendered into a
\* pixmap of size x size and save_png opens the file, which creates or truncates
\* it; only a well-formed document gets here
GetPngRender(t) ==
    /\ pc[t] = "render"
    /\ LET icon == Unwrap(cand[t])
           data == Unwrap(svg_data[t])
           png_path == PngPath(icon.path, ByteLen(data), pref[t])
       IN /\ pixmap' = [pixmap EXCEPT ![t] =
                            Some([from |-> icon.path, px |-> pref[t], of |-> data])]
          /\ \/ /\ artifacts' = {a \in artifacts : a.path # png_path}
                                   \cup {[path |-> png_path, from |-> icon.path,
                                          px |-> pref[t], of |-> data,
                                          complete |-> FALSE]}
                /\ pc' = [pc EXCEPT ![t] = "write"]
                /\ UNCHANGED <<ret, err>>
             \/ /\ Fail(t, WriteError)
                /\ UNCHANGED artifacts
    /\ UNCHANGED <<fs, disk, cache, poisoned, entry, pref, cand, src, idx, found,
                   queried, stale, svg_data, calls, removals,
                   parser, app>>

\* get_png_from_svg, lines 384-386: the bytes of the bitmap are written; a write
\* that fails leaves what it had written
GetPngWrite(t) ==
    /\ pc[t] = "write"
    /\ LET icon == Unwrap(cand[t])
           png_path == PngPath(icon.path, ByteLen(Unwrap(svg_data[t])), pref[t])
       IN \/ /\ artifacts' = {[path |-> png_path, from |-> Unwrap(pixmap[t]).from,
                                px |-> Unwrap(pixmap[t]).px,
                                of |-> Unwrap(pixmap[t]).of, complete |-> TRUE]}
                                \cup {a \in artifacts : a.path # png_path}
             /\ Return(t, FromPath(png_path, pref[t]))
          \/ /\ Fail(t, WriteError)
             /\ UNCHANGED artifacts
    /\ UNCHANGED <<fs, disk, cache, poisoned, entry, pref, cand, src, idx, found,
                   queried, stale, pixmap, svg_data, calls, removals,
                   parser, app>>

\* ---- the environment ------------------------------------------------------------
\* an icon file is deleted
RemoveFile ==
    /\ removals < MaxRemovals
    /\ \E p \in Paths :
        /\ fs[p] # NoFile
        /\ fs' = [fs EXCEPT ![p] = NoFile]
    /\ removals' = removals + 1
    /\ UNCHANGED <<artifacts, disk, cache, poisoned, pc, entry, pref, cand, src, idx,
                   found, queried, stale, ret, err, pixmap, svg_data, calls,
                   parser, app>>

\* the vector icon is overwritten with text that is no SVG document
RewriteFile ==
    /\ removals < MaxRemovals
    /\ fs[ThemeSvg] = Good
    /\ fs' = [fs EXCEPT ![ThemeSvg] = Malformed]
    /\ removals' = removals + 1
    /\ UNCHANGED <<artifacts, disk, cache, poisoned, pc, entry, pref, cand, src, idx,
                   found, queried, stale, ret, err, pixmap, svg_data, calls,
                   parser, app>>

Next ==
    \/ \E t \in Threads :
        \/ Call(t)
        \/ GetIconExact(t)
        \/ GetIconCache(t)
        \/ GetIconTheme(t)
        \/ GetIconLadder(t)
        \/ CachedProcessContains(t)
        \/ CachedProcessInsert(t)
        \/ CachedProcessSave(t)
        \/ CachedProcessMatch(t)
        \/ GetPngRender(t)
        \/ GetPngWrite(t)
    \/ RemoveFile
    \/ RewriteFile

Spec == Init /\ [][Next]_vars

\* the vector icon is overwritten with another drawing of the same byte length
RedrawFile ==
    /\ removals < MaxRemovals
    /\ fs[ThemeSvg] = Good
    /\ fs' = [fs EXCEPT ![ThemeSvg] = Redrawn]
    /\ removals' = removals + 1
    /\ UNCHANGED <<artifacts, disk, cache, poisoned, pc, entry, pref, cand, src, idx,
                   found, queried, stale, ret, err, pixmap, svg_data, calls,
                   parser, app>>

NextRedraw == Next \/ RedrawFile

\* the runs in which an icon may also be redrawn in place
SpecRedraw == Init /\ [][NextRedraw]_vars

\* the steps of the call thread t is in
Run(t) ==
    \/ GetIconExact(t)
    \/ GetIconCache(t)
    \/ GetIconTheme(t)
    \/ GetIconLadder(t)
    \/ CachedProcessContains(t)
    \/ CachedProcessInsert(t)
    \/ CachedProcessSave(t)
    \/ CachedProcessMatch(t)
    \/ GetPngRender(t)
    \/ GetPngWrite(t)

\* every thread that can take a step of its call eventually takes one
FairSpec == Spec /\ \A t \in Threads : WF_vars(Run(t))

\* the runs that start without a snapshot ImageCache::new can load
InitLoadFails == Init /\ Deserialize(disk[CacheFile]) = NoneV

SpecLoadFails == InitLoadFails /\ [][Next]_vars

\* ---- parsing a desktop file ----------------------------------------------------
\* the lines a desktop file is made of here: an empty line, a comment, three group
\* headers, the five keys parse_desktop_file knows, a key it does not know, and a
\* line without '='
ParseLines ==
    { <<>>,
      <<"#", "Name", "=", "c">>,
      <<"[", "Desktop", "Entry", "]">>,
      <<"[", "Desktop", "Action", "]">>,
      <<"[", "KDE", "Desktop", "Entry", "]">>,
      <<"Name", "=", "a">>,
      <<"Name", "=", "b">>,
      <<"Exec", "=", "sh", "=", "x">>,
      <<"Icon", "=", "a">>,
      <<"Categories", "=", "A", ";", ";", "B", ";">>,
      <<"Categories", "=">>,
      <<"NoDisplay", "=", "true">>,
      <<"NoDisplay", "=", "True">>,
      <<"Comment", "=", "c">>,
      <<"Name">> }

ParseFiles == UNION {[1..n -> ParseLines] : n \in 0..MaxLines}

\* fs::File::open, lines 105-112: the file opens or the call returns the error
ParseOpen ==
    /\ parser.result = "opening"
    /\ \E ok \in BOOLEAN :
          parser' = [parser EXCEPT !.result = IF ok THEN "reading" ELSE "err"]
    /\ UNCHANGED <<icons, app>>

\* one turn of `for line in reader.lines()`, lines 127-168: the line is read and
\* handled, or reading it fails and the call returns the error
ParseLine ==
    /\ parser.result = "reading"
    /\ parser.pos <= Len(parser.lines)
    /\ \/ parser' = [ParseStep(parser, parser.lines[parser.pos]) EXCEPT !.pos = parser.pos + 1]
       \/ parser' = [parser EXCEPT !.result = "err"]
    /\ UNCHANGED <<icons, app>>

\* Ok(DesktopFile { .. }) after the last line, lines 171-178
ParseReturn ==
    /\ parser.result = "reading"
    /\ parser.pos > Len(parser.lines)
    /\ parser' = [parser EXCEPT !.result = "ok"]
    /\ UNCHANGED <<icons, app>>

NextParse == ParseOpen \/ ParseLine \/ ParseReturn

\* the icon pipeline and the App at rest, a desktop file about to be parsed
InitParse ==
    /\ InitIcons
    /\ fs[ThemeSvg] = Good
    /\ disk[CacheFile] = Missing
    /\ app = AppNew(FALSE, FALSE)
    /\ \E f \in ParseFiles : parser = ParserNew(f)

SpecParse == InitParse /\ [][NextParse]_vars

\* ---- the frames of an App -------------------------------------------------------
\* App::frame, lines 192-298
Frame ==
    \E stopped, d, u, scaled_far \in BOOLEAN, delta \in 0..1 :
        LET updated == FrameUpdate(app, stopped, d, u)
            moved == FrameMove(updated, delta, scaled_far)
        IN /\ ~app.grabbable_enabled => d = app.far
           /\ scaled_far => app.position_far
           /\ Len(FrameChain(moved, delta).tasks) <= MaxTasks
           /\ app' = FrameChain(moved, delta)
           /\ UNCHANGED <<icons, parser>>

\* App::apply_state, lines 179-190
ApplyState ==
    \E u \in BOOLEAN :
        /\ app' = [app EXCEPT !.unfurled = u,
                              !.grabbable_enabled = u,
                              !.icon_enabled = IF u THEN TRUE ELSE @,
                              !.grabbable_move = Some(Tweener(IF u THEN "1.0" ELSE "0.0001"))]
        /\ UNCHANGED <<icons, parser>>

\* the task gets the answer to space.get_transform(&parent) and compares the
\* distance with ACTIVATION_DISTANCE, lines 272-281
TaskMeasure(i) ==
    /\ app.tasks[i].stage = "measure"
    /\ app' = [app EXCEPT !.tasks[i].stage = IF app.far THEN "rotate" ELSE "done"]
    /\ UNCHANGED <<icons, parser>>

\* the task gets the rotation, turns the content and calls application.launch,
\* lines 282-294
TaskLaunch(i) ==
    /\ app.tasks[i].stage = "rotate"
    /\ app' = [app EXCEPT !.tasks[i].stage = "launched"]
    /\ UNCHANGED <<icons, parser>>

NextFrame ==
    \/ Frame
    \/ ApplyState
    \/ \E i \in 1..Len(app.tasks) : TaskMeasure(i)
    \/ \E i \in 1..Len(app.tasks) : TaskLaunch(i)

\* the icon pipeline and the parser at rest, one App just created
InitFrame ==
    /\ InitIcons
    /\ fs[ThemeSvg] = Good
    /\ disk[CacheFile] = Missing
    /\ parser = ParserNew(<<>>)
    /\ \E u, pf \in BOOLEAN : app = AppNew(u, pf)

SpecFrame == InitFrame /\ [][NextFrame]_vars

\* ---- properties -------------------------------------------------------------------
Recognized == {Some("png"), Some("svg"), Some("glb"), Some("gltf")}
Ladder == <<512, 256, 128, 64, 48, 32, 24>>
NameKey(t) == <<Unwrap(entry[t]), pref[t]>>
Moves(t) == pc'[t] # pc[t]

C2_ExactPathWins ==
    /\ [][\A t \in Threads :
            (/\ pc[t] = "get_icon"
             /\ entry[t] # NoneV
             /\ Exists(Join(DesktopPath, Unwrap(entry[t])))
             /\ Extension(Join(DesktopPath, Unwrap(entry[t]))) \in Recognized
             /\ Moves(t))
            => /\ pc'[t] = "picked"
               /\ src'[t] = "exact"
               /\ IsSome(cand'[t])
               /\ Unwrap(cand'[t]).path = Join(DesktopPath, Unwrap(entry[t]))
               /\ Unwrap(cand'[t]).size = pref[t]
               /\ queried'[t] = <<>>]_vars
    /\ [](\A t \in Threads :
            src[t] = "exact" => /\ pc[t] \notin {"cache", "theme", "ladder"}
                                /\ queried[t] = <<>>
                                /\ ~stale[t])

\* the exact path was accepted while the cache holds an entry under the file's stem
\* that points elsewhere
C2_Witness ==
    \E t \in Threads :
        /\ pc[t] = "picked"
        /\ src[t] = "exact"
        /\ Unwrap(cand[t]).path = OptGlb
        /\ ContainsKey(ProcessKey(Unwrap(cand[t]), pref[t]))
        /\ cache.map[ProcessKey(Unwrap(cand[t]), pref[t])] # OptGlb

Usable(r) == IsSome(r) /\ Extension(Unwrap(r)) \in Recognized

\* C3: once the exact path, the cache and the theme at the preferred size have
\* failed, the theme is asked at 512, 256, 128, 64, 48, 32, 24 in that order; the
\* loop goes on only after an answer that is not usable, the first usable answer is
\* accepted and nothing is asked after it, and after seven failures the call
\* returns nothing.
C3_LadderOrder ==
    \A t \in Threads :
        /\ pc[t] = "ladder" =>
            /\ idx[t] \in 1..7
            /\ queried[t] = <<pref[t]>> \o SubSeq(Ladder, 1, idx[t] - 1)
            /\ ~Usable(found[t])
            /\ src[t] = "none"
        /\ (pc[t] = "picked" /\ src[t] = "ladder") =>
            /\ idx[t] \in 1..7
            /\ queried[t] = <<pref[t]>> \o SubSeq(Ladder, 1, idx[t])
            /\ Usable(found[t])
            /\ Unwrap(cand[t]).path = Unwrap(found[t])
        /\ (pc[t] = "done" /\ entry[t] # NoneV /\ src[t] = "none") =>
            /\ ret[t] = NoneV
            /\ queried[t] = <<pref[t]>> \o Ladder
            /\ ~Usable(found[t])

\* the fourth size of the ladder was the first to give a usable answer
C3_Witness ==
    \E t \in Threads :
        /\ pc[t] = "picked"
        /\ src[t] = "ladder"
        /\ idx[t] = 4
        /\ queried[t] = <<pref[t], 512, 256, 128, 64>>

\* C4: after a call has accepted a candidate that did not come from the cache and
\* has inserted it, the cache maps (icon_name, preferred_size), the key of the
\* lookup step, to the candidate's source path.
C4_InsertKeyedByIconName ==
    \A t \in Threads :
        (pc[t] = "save" /\ src[t] # "cache") =>
            /\ NameKey(t) \in DOMAIN cache.map
            /\ cache.map[NameKey(t)] = Unwrap(cand[t]).path

\* C5: a call that met a stale entry for (icon_name, preferred_size) and then
\* succeeded with source path p leaves the cache mapping that key to p.
C5_StaleEntryReplaced ==
    \A t \in Threads :
        (pc[t] = "done" /\ stale[t] /\ IsSome(ret[t])) =>
            /\ NameKey(t) \in DOMAIN cache.map
            /\ cache.map[NameKey(t)] = Unwrap(cand[t]).path

\* C6: the caller of an entry with an icon name receives nothing only when the
\* chain was exhausted: no candidate was accepted and then given up.
C6_NoIconOnlyWhenExhausted ==
    \A t \in Threads :
        (pc[t] = "done" /\ entry[t] # NoneV /\ ret[t] = NoneV) =>
            /\ src[t] = "none"
            /\ queried[t] = <<pref[t]>> \o Ladder

\* C7: the call of an entry without icon name returns nothing in one step that
\* leaves the cache table, the snapshot files and the rendered bitmaps as they were
\* and asks the theme nothing.
C7_NoIconNameNoEffect ==
    /\ [][\A t \in Threads :
            (pc[t] = "get_icon" /\ entry[t] = NoneV /\ Moves(t))
            => /\ pc'[t] = "done"
               /\ ret'[t] = NoneV
               /\ cache' = cache
               /\ disk' = disk
               /\ artifacts' = artifacts
               /\ queried'[t] = <<>>]_vars
    /\ [](\A t \in Threads :
            (entry[t] = NoneV /\ pc[t] # "idle") => pc[t] \in {"get_icon", "done"})

\* an entry without icon name was answered while the cache held entries
C7_Witness ==
    \E t \in Threads :
        /\ pc[t] = "done"
        /\ entry[t] = NoneV
        /\ ret[t] = NoneV
        /\ DOMAIN cache.map # {}
        /\ disk[CacheFile].kind = "toml"

\* C8: once a key has a value in the table the value never changes, and the insert
\* of a present key leaves the table as it was.
C8_FirstWriterWins ==
    [][\A k \in DOMAIN cache.map :
            k \in DOMAIN cache'.map /\ cache'.map[k] = cache.map[k]]_vars

\* the entry of key k of the table is in the snapshot file the table is saved to
Persisted(k) ==
    LET f == Deserialize(disk[cache.path]) IN
    /\ IsSome(f)
    /\ k \in DOMAIN Unwrap(f).map
    /\ Unwrap(f).map[k] = cache.map[k]

\* C9: every lookup that finds an entry in the table finds it already written to
\* the snapshot file.
C9_LookupSeesPersisted ==
    [][\A t \in Threads :
            (pc[t] = "cache" /\ pc'[t] = "picked") => Persisted(NameKey(t))]_vars

\* C10: when the save of an insertion has returned, a cache freshly loaded from
\* the snapshot file answers the inserted key with the inserted path.
C10_RoundTrip ==
    [][\A t \in Threads :
            (pc[t] = "save" /\ pc'[t] = "process") =>
                LET c == ImageCacheNew(CacheFile, disk')
                    k == ProcessKey(Unwrap(cand[t]), pref[t])
                IN k \in DOMAIN c.map /\ c.map[k] = Unwrap(cand[t]).path]_vars

\* C11: when the snapshot file is missing, unreadable or malformed, the cache
\* starts empty with the path it was given, and from then on every insertion
\* goes through: the insert is followed by the save, the save returns, and a
\* cache loaded from the snapshot file afterwards holds exactly the entries of
\* the table.
C11_LoadNeverFails ==
    /\ (cache.map = EmptyMap /\ cache.path = CacheFile)
    /\ [][\A t \in Threads :
            /\ (pc[t] = "insert" /\ Moves(t)) => pc'[t] = "save"
            /\ (pc[t] = "save" /\ Moves(t)) =>
                    /\ pc'[t] = "process"
                    /\ ImageCacheNew(CacheFile, disk').map = cache.map]_vars

\* the call of thread t is at get_png_from_svg with a source that can be read and
\* parsed
AtRasterizer(t) ==
    /\ pc[t] = "process"
    /\ Unwrap(cand[t]).icon_type = "Svg"
    /\ Exists(Unwrap(cand[t]).path)
    /\ WellFormed(fs[Unwrap(cand[t]).path])

\* the bitmap files written from source p at size s
ArtifactsOf(p, s) == {a \in artifacts : a.from = p /\ a.px = s}

\* C12: a call of get_png_from_svg for a (source, size) that an earlier call has
\* already written a bitmap for, the source being as it was, returns the path of
\* that bitmap in one step: it renders no pixmap and leaves the bitmap files as
\* they are.
C12_RasterizeIdempotent ==
    [][\A t \in Threads :
            (/\ AtRasterizer(t)
             /\ ArtifactsOf(Unwrap(cand[t]).path, pref[t]) # {}
             /\ Moves(t))
            => /\ pc'[t] = "done"
               /\ IsSome(ret'[t])
               /\ \E a \in ArtifactsOf(Unwrap(cand[t]).path, pref[t]) :
                        Unwrap(ret'[t]).path = a.path
               /\ pixmap'[t] = NoneV
               /\ artifacts' = artifacts]_vars

\* one call rendered the bitmap and returned it, a later call of the other thread
\* returned the same path without rendering
C12_Witness ==
    \E t, u \in Threads :
        /\ pc[t] = "done" /\ pc[u] = "done"
        /\ IsSome(pixmap[t]) /\ IsSome(ret[t])
        /\ pixmap[u] = NoneV /\ IsSome(ret[u])
        /\ Unwrap(cand[u]).icon_type = "Svg"
        /\ Unwrap(cand[u]).path = Unwrap(pixmap[t]).from
        /\ ret[u] = ret[t]

\* C13: a call of get_png_from_svg for a (source, size) whose bitmap is in the
\* cache directory returns the path of that bitmap in one step, whether or not
\* the source can still be read and parsed.
C13_PureCacheHit ==
    [][\A t \in Threads :
            (/\ pc[t] = "process"
             /\ Unwrap(cand[t]).icon_type = "Svg"
             /\ ArtifactsOf(Unwrap(cand[t]).path, pref[t]) # {}
             /\ Moves(t))
            => /\ pc'[t] = "done"
               /\ IsSome(ret'[t])
               /\ \E a \in ArtifactsOf(Unwrap(cand[t]).path, pref[t]) :
                        Unwrap(ret'[t]).path = a.path
               /\ err'[t] = NoError]_vars

\* the call of thread t returns in this step
Returns(t) == pc[t] # "done" /\ pc'[t] = "done"

\* C14: a call that returns an icon for an accepted .svg candidate returns a Png
\* record whose path is <source-file-name>-<source-byte-length>-<size>.png in the
\* cache directory, and that file is on disk as a completely written bitmap of
\* size x size; a call that accepted a .png or a 3D model returns the candidate as
\* it is; no call returns an Svg record.
C14_VectorBecomesRaster ==
    /\ [][\A t \in Threads :
            (Returns(t) /\ IsSome(cand[t]) /\ IsSome(ret'[t])) =>
                LET c == Unwrap(cand[t])
                    r == Unwrap(ret'[t])
                IN IF c.icon_type = "Svg"
                   THEN /\ r.icon_type = "Png"
                        /\ r.size = pref[t]
                        /\ r.path = Str(CacheDir,
                                        c.path.file \o <<ByteLen(Good), pref[t], "png">>)
                        /\ \E a \in artifacts' :
                                /\ a.path = r.path
                                /\ a.px = pref[t]
                                /\ a.complete
                   ELSE r = c]_vars
    /\ [](\A t \in Threads : IsSome(ret[t]) => Unwrap(ret[t]).icon_type # "Svg")

\* C15: whatever the interleaving of the calls that rasterize one (source, size),
\* a call that finds the bitmap's path existing and returns it returns a file that
\* has been written completely from that source at that size, not one that a
\* caller is still writing.
C15_ExistenceProvesCompletion ==
    [][\A t \in Threads :
            (/\ pc[t] = "process"
             /\ Unwrap(cand[t]).icon_type = "Svg"
             /\ Returns(t)
             /\ IsSome(ret'[t]))
            => \E a \in artifacts :
                    /\ a.path = Unwrap(ret'[t]).path
                    /\ a.from = Unwrap(cand[t]).path
                    /\ a.px = pref[t]
                    /\ a.complete
                    /\ \A u \in Threads : pc[u] = "write" => Unwrap(cand[u]).path # a.from]_vars

\* the call of thread t failed in get_png_from_svg after it had rendered: the
\* bitmap could not be written
WriteFailed(t) == pc[t] = "done" /\ err[t] # NoError /\ IsSome(pixmap[t])

\* the call of thread t failed in get_png_from_svg before it rendered: the source
\* could not be read, or it could not be parsed
SourceFailed(t) == pc[t] = "done" /\ err[t] # NoError /\ pixmap[t] = NoneV

\* C16: the error of a call that could not write the bitmap differs from the
\* error of a call that could not read or could not parse its source, the error
\* of an unreadable source differs from that of a malformed document, and a call
\* that failed stays failed: it does not go back to rendering.
C16_DistinctErrors ==
    /\ \A t, u \in Threads : (WriteFailed(t) /\ SourceFailed(u)) => err[t] # err[u]
    /\ \A t \in Threads :
            (SourceFailed(t) /\ IsSome(cand[t]) /\ Exists(Unwrap(cand[t]).path)
                /\ ~WellFormed(fs[Unwrap(cand[t]).path])) => err[t] # ReadError
    /\ \A t \in Threads : err[t] # NoError => pc[t] \in {"done", "idle"}

\* C17: a call whose candidate was accepted at the cache step changes neither the
\* table nor a snapshot file in any of its steps, and never reaches the insert or
\* the save of cached_process.
C17_CacheSourcedLeavesCache ==
    /\ [][\A t \in Threads :
            (src[t] = "cache" /\ Moves(t)) => (cache' = cache /\ disk' = disk)]_vars
    /\ [](\A t \in Threads : src[t] = "cache" => pc[t] \notin {"insert", "save"})

\* a call answered from the cache has returned its icon
C17_Witness ==
    \E t \in Threads :
        /\ pc[t] = "done"
        /\ src[t] = "cache"
        /\ IsSome(ret[t])
        /\ NameKey(t) \in DOMAIN cache.map
        /\ cache.map[NameKey(t)] = Unwrap(cand[t]).path

\* C18: when a call that accepted an .svg candidate outside the cache step returns
\* nothing because the rasterization failed, the table holds the candidate's
\* source path and so does the snapshot file of this process.
C18_WriteBeforePostProcessing ==
    [][\A t \in Threads :
            (/\ Returns(t)
             /\ pc[t] \in {"process", "render", "write"}
             /\ src[t] # "cache"
             /\ Unwrap(cand[t]).icon_type = "Svg"
             /\ ret'[t] = NoneV)
            => /\ \E k \in DOMAIN cache.map : cache.map[k] = Unwrap(cand[t]).path
               /\ \E k \in DOMAIN ImageCacheNew(CacheFile, disk).map :
                        ImageCacheNew(CacheFile, disk).map[k] = Unwrap(cand[t]).path]_vars

\* C19: under fair scheduling every call that has begun returns, with an icon or
\* with nothing, and no call asks the theme more than eight times.
C19_EveryCallReturns ==
    /\ \A t \in Threads : [](pc[t] = "get_icon" => <>(pc[t] = "done"))
    /\ [](\A t \in Threads : Len(queried[t]) <= 8)

\* C20: when the write of the snapshot fails in the save of an insertion, the call
\* goes on to post-processing like a call whose write went through, the mutex is
\* not poisoned, and no call ever ends in a panic.
C20_SaveFailureAbsorbed ==
    /\ [][\A t \in Threads :
            (pc[t] = "save" /\ ~poisoned /\ Moves(t))
            => (pc'[t] = "process" /\ ~poisoned')]_vars
    /\ [](~poisoned /\ \A t \in Threads : pc[t] # "panicked")

\* C24: every save writes the file ImageCache::new was given, imagecache.map, and
\* no other file, whatever path the loaded snapshot recorded.
C24_SaveWritesLoadedFile ==
    [][\A t \in Threads :
            (pc[t] = "save" /\ pc'[t] = "process")
            => /\ disk'[CacheFile] = Serialize(cache)
               /\ \A f \in SnapPaths \ {CacheFile} : disk'[f] = disk[f]]_vars

\* C23: a call that returns a bitmap for an .svg source returns a rendering of the
\* bytes it read from that source: the file at the returned path was rendered
\* from that source with that content at that size.
C23_ArtifactOfItsSource ==
    [][\A t \in Threads :
            (/\ Returns(t)
             /\ IsSome(cand[t])
             /\ Unwrap(cand[t]).icon_type = "Svg"
             /\ IsSome(ret'[t]))
            => \E a \in artifacts' :
                    /\ a.path = Unwrap(ret'[t]).path
                    /\ a.from = Unwrap(cand[t]).path
                    /\ a.px = pref[t]
                    /\ a.of = Unwrap(svg_data'[t])]_vars

\* ---- C21 --------------------------------------------------------------------------
\* the group is named Desktop Entry
IsDesktopEntryExactly(group) == group = <<"Desktop", "Entry">>

\* line i of the file is a group header
IsHeader(ls, i) == IsSome(Captures(ls[i]))

\* line i is neither empty nor a comment and the last group header at or before it
\* is [Desktop Entry]
UnderDesktopEntry(ls, i) ==
    /\ ls[i] # <<>>
    /\ ~StartsWithHash(ls[i])
    /\ \E h \in 1..i :
          /\ IsHeader(ls, h)
          /\ IsDesktopEntryExactly(Unwrap(Captures(ls[h])))
          /\ \A k \in (h + 1)..i : ~IsHeader(ls, k)

\* the key=value lines of key `key` among the first n lines that count
Counted(ls, n, key) ==
    {i \in 1..n : /\ UnderDesktopEntry(ls, i)
                  /\ IsSome(SplitOnce(ls[i], "="))
                  /\ Unwrap(SplitOnce(ls[i], "="))[1] = <<key>>}

Max(S) == CHOOSE i \in S : \A j \in S : j <= i

\* the value of the last counted line of the key
LastValue(ls, n, key) ==
    IF Counted(ls, n, key) = {} THEN NoneV
    ELSE Some(Unwrap(SplitOnce(ls[Max(Counted(ls, n, key))], "="))[2])

\* the items of a value between the ';', in order
ItemRanges(v) ==
    {r \in (1..Len(v)) \X (1..Len(v)) :
        /\ r[1] <= r[2]
        /\ \A i \in r[1]..r[2] : v[i] # ";"
        /\ (r[1] = 1 \/ v[r[1] - 1] = ";")
        /\ (r[2] = Len(v) \/ v[r[2] + 1] = ";")}

ItemsOf(v) ==
    LET R == ItemRanges(v)
        Ord == CHOOSE f \in [1..Cardinality(R) -> R] :
                   \A i, j \in 1..Cardinality(R) : i < j => f[i][1] < f[j][1]
    IN [i \in 1..Cardinality(R) |-> SubSeq(v, Ord[i][1], Ord[i][2])]

\* C21: parse_desktop_file, processing the file's lines in order, fills the record
\* only from key=value lines that follow a [Desktop Entry] group header: Name,
\* Exec and Icon take the value of their last such line, Categories is the
\* ';'-separated list of its last such line in file order with empty items
\* dropped, NoDisplay is true exactly when the value of its last such line is
\* "true"; every other line leaves the record unchanged.
C21_RecordFromDesktopEntryGroup ==
    parser.result \in {"reading", "ok"} =>
        LET ls == parser.lines
            n == parser.pos - 1
        IN /\ parser.name = LastValue(ls, n, "Name")
           /\ parser.command = LastValue(ls, n, "Exec")
           /\ parser.icon = LastValue(ls, n, "Icon")
           /\ parser.categories =
                  IF LastValue(ls, n, "Categories") = NoneV THEN <<>>
                  ELSE ItemsOf(Unwrap(LastValue(ls, n, "Categories")))
           /\ parser.no_display = (LastValue(ls, n, "NoDisplay") = Some(<<"true">>))

\* ---- C22 --------------------------------------------------------------------------
\* a launch task is started by this step
TaskStarted == Len(app'.tasks) > Len(app.tasks)

\* a launch task is started only on a frame where the grab action reports a
\* release and neither animation is active, and that frame starts the shrink
StartedOnRelease ==
    TaskStarted =>
        /\ app'.actor_stopped
        /\ app.grabbable_shrink = NoneV
        /\ app.grabbable_grow = NoneV
        /\ app'.grabbable_shrink = Some(Tweener("0.0001"))

\* the shrink ends only when it has finished, and if unfurled the grow follows it;
\* the grow ends only when it has finished
AnimationsRunOut ==
    /\ (app.grabbable_shrink # NoneV /\ app'.grabbable_shrink = NoneV)
        => /\ IsFinished(Unwrap(app.grabbable_shrink))
           /\ app'.unfurled => app'.grabbable_grow = Some(Tweener("1.0"))
    /\ (app.grabbable_grow # NoneV /\ app'.grabbable_grow = NoneV)
        => IsFinished(Unwrap(app.grabbable_grow))

\* the application is launched only by a task whose release was beyond
\* ACTIVATION_DISTANCE
LaunchedOnlyFar ==
    \A i \in 1..Len(app.tasks) :
        (app.tasks[i].stage # "launched" /\ app'.tasks[i].stage = "launched")
        => app.tasks[i].at_release

\* C22: a launch task is started only on a frame where the grab action reports a
\* release and neither the shrink nor the grow animation is active; that frame
\* also starts the shrink, so no second launch task is started until the shrink
\* (and, if unfurled, the following grow) has finished; and the application is
\* launched only if the distance at the release exceeded ACTIVATION_DISTANCE.
C22_LaunchOnReleaseBeyondDistance ==
    [][StartedOnRelease /\ AnimationsRunOut /\ LaunchedOnlyFar]_vars

====
